---- MODULE Spec2Model ----
(***************************************************************************)
(* Conversation store, guardrail gate and transport handlers of the AWX    *)
(* assistant (main.py, conversations/conversation.py,                      *)
(* slack_connection/slack_functions.py, sub_agents/chat_guardrails.py).    *)
(*                                                                         *)
(* The Redis server executes one command at a time; handlers may run in    *)
(* different server processes attached to the same store, so the commands  *)
(* of two save_history calls (WATCH+GET, then MULTI/SET/EXEC) interleave.  *)
(***************************************************************************)
EXTENDS Integers, Sequences, FiniteSets, TLC

\* ------------------------------------------------------------------ bounds
\* Number of chat turns (inbound messages) of one behaviour.
MaxTurns == 2
\* Longest history handed to save_history in the read-after-write law.
MaxLawLen == 22

\* ------------------------------------------------------- program constants
\* user_data[-20:] / result[-20:]
HistoryWindow == 20

Users == {"u1", "u2"}
Turns == 1..MaxTurns

\* ------------------------------------------------------------ turn records
\* Message text is a record: the prompt's "[USER_ID: <id>] " prefix and the body.
Text(prefix, body, n) == [prefix |-> prefix, body |-> body, n |-> n]

UserEntry(content) == [role |-> "user", content |-> content]

\* {"role": "assistant", "content": ..., "tool_result": ..., "tool_name": ...}
AssistantMessage(explanation, result, tool_name) ==
    [role |-> "assistant", content |-> explanation,
     tool_result |-> result, tool_name |-> tool_name]

RefusalText == Text("", "I am here to help you with Ansible AWX so right now I can't help you with that.", 0)

\* {"role": "assistant", "content": <refusal>} of the tripwire branch
RefusalEntry == [role |-> "assistant", content |-> RefusalText]

\* f"[USER_ID: {user_id}] {user_message}"
EnhancedMessage(user_id, user_message) ==
    [user_message EXCEPT !.prefix = user_id]

\* ------------------------------------------------------------- list slices
\* Python's xs[-n:]
LastN(xs, n) ==
    IF Len(xs) <= n THEN xs ELSE SubSeq(xs, Len(xs) - n + 1, Len(xs))

\* Python's xs[:n]
FirstN(xs, n) ==
    IF Len(xs) <= n THEN xs ELSE SubSeq(xs, 1, n)

\* ------------------------------------------------------- the stored value
\* A key holds nothing, or the JSON text of a list.
Absent == [kind |-> "absent", items |-> <<>>]

\* json.dumps(new_history): turns are dicts of strings, which JSON keeps as they are
json_dumps(new_history) == [kind |-> "list", items |-> new_history]

\* a value json.dumps cannot encode (bytes, a set, an object)
NotJson == Text("", "<not JSON serializable>", 0)

\* json.dumps(new_history) raises TypeError
json_dumps_raises(new_history) ==
    \E i \in 1..Len(new_history) : new_history[i].content = NotJson

\* {"role": item["role"], "content": item["content"]}
RoleContent(item) == [role |-> item.role, content |-> item.content]

\* the loop of get_history with all_fields = False
ProjectItems(user_data) ==
    [i \in 1..Len(user_data) |-> RoleContent(user_data[i])]

HeadWindow(xs) == FirstN(xs, HistoryWindow)

\* result[-20:]
ReadWindow(xs) == LastN(xs, HistoryWindow)

\* get_history(user_id) on the raw value of the key; redis_ok = FALSE is a
\* redis.RedisError raised by redis_client.get
get_history(raw, redis_ok) ==
    IF ~redis_ok THEN <<>>
    ELSE IF raw.kind = "absent" THEN <<>>
    ELSE IF raw.kind # "list" THEN <<>>
    ELSE ReadWindow(ProjectItems(raw.items))


\* ------------------------------------------------------- guardrail gate
\* What an item of the guardrail's input list is: a dict whose "content" is a
\* non-empty str ("text"), an empty str ("empty"), absent ("missing"), a truthy
\* value that is not a str such as a list of parts ("nonstr"), or no dict at all.
ItemKinds == {"text", "empty", "missing", "nonstr", "notdict"}

StrInput(text) == [type |-> "str", text |-> text, items |-> <<>>]
ListInput(items) == [type |-> "list", text |-> "", items |-> items]
OtherInput == [type |-> "other", text |-> "", items |-> <<>>]

\* item.get("content") is truthy
HasContent(kind) == kind \in {"text", "nonstr"}

\* "..." + content raises TypeError
ConcatRaises(kind) == kind = "nonstr"

\* lines 59-62: the bot message, second to last item
BotPart(input) ==
    IF input.type = "list" /\ Len(input.items) >= 2
       /\ input.items[Len(input.items) - 1] # "notdict"
       /\ HasContent(input.items[Len(input.items) - 1])
    THEN <<input.items[Len(input.items) - 1]>> ELSE <<>>

\* lines 65-68: the user message, last item
UserPart(input) ==
    IF input.type = "list" /\ Len(input.items) >= 1
       /\ input.items[Len(input.items)] # "notdict"
       /\ HasContent(input.items[Len(input.items)])
    THEN <<input.items[Len(input.items)]>> ELSE <<>>

\* lines 71-77: the fallbacks when nothing was built
FallbackPart(input) ==
    IF BotPart(input) \o UserPart(input) # <<>> THEN <<>>
    ELSE IF input.type = "str" THEN (IF input.text = "" THEN <<>> ELSE <<"text">>)
    ELSE IF input.type = "list"
         THEN SelectSeq(input.items, LAMBDA k : k # "notdict" /\ HasContent(k))
    ELSE <<>>

\* the contents concatenated into conversation_message, in order
MessageParts(input) == BotPart(input) \o UserPart(input) \o FallbackPart(input)

\* the try block of lines 57-82 raises
BuildRaises(input) ==
    \E i \in 1..Len(MessageParts(input)) : ConcatRaises(MessageParts(input)[i])

Allow == [raised |-> FALSE, tripwire_triggered |-> FALSE]
Reject == [raised |-> FALSE, tripwire_triggered |-> TRUE]
Raised == [raised |-> TRUE, tripwire_triggered |-> FALSE]

ClassifierOutcomes == {"valid", "invalid", "error"}

\* security_request_guardrail(ctx, agent, input); classifier is what
\* Runner.run(the_security_agent, ...) does: is_valid_request True/False, or raises
security_request_guardrail(input, classifier) ==
    IF BuildRaises(input) THEN Allow
    ELSE IF classifier = "error" THEN Raised
    ELSE IF classifier = "valid" THEN Allow
    ELSE Reject

\* the handlers' prompt_input as the guardrail sees it: dicts with str content
PromptAsInput(prompt_input) ==
    ListInput([i \in 1..Len(prompt_input) |->
                 IF prompt_input[i].content.body = "" THEN "empty" ELSE "text"])


\* ------------------------------------------------------------------ state
VARIABLES
    store,       \* Redis: raw value of awx_chat_<user_id>, per user_id
    commits,     \* Redis: how many times each key has been SET
    turn,        \* per chat turn: the handler's locals and position
    lawPc,       \* read-after-write law: position
    lawUser,     \*   user_id
    lawHist,     \*   history handed to save_history
    lawRead,     \*   what get_history returned
    gPc,         \* guardrail gate called alone: position
    gInput,      \*   its input
    gClassifier, \*   what the classifier run did
    gOut,        \*   what security_request_guardrail did
    conn,        \* per WebSocket connection: websocket_endpoint's locals and position
    active_connections, \* main.py's dict: connection_id -> connection
    run,         \* one Runner.run of the leader agent: agent, turns taken, state
    tool,        \* one make_request call: the response it meets and what it returns
    github       \* the GitHub worker: the environment, one config lookup, one request

vars == <<store, commits, turn, lawPc, lawUser, lawHist, lawRead, gPc, gInput, gClassifier, gOut,
          conn, active_connections, run, tool, github>>
lawVars == <<lawPc, lawUser, lawHist, lawRead>>
gateVars == <<gPc, gInput, gClassifier, gOut>>
wsVars == <<conn, active_connections>>

\* WebSocket connections a behaviour opens
Conns == {"c1", "c2"}

\* a connection nobody has opened yet
NoConn ==
    [pc |-> "closed", user |-> "", client |-> "none", n |-> 0, history |-> <<>>,
     request_type |-> "none", events |-> 0, frames |-> <<>>, last |-> "none",
     outcome |-> "none", saved |-> FALSE]

\* no Runner.run under way
RunOff == [state |-> "off", agent |-> "none", turns |-> 0, handoffs |-> 0]

\* no make_request call under way
ToolOff == [pc |-> "off", net |-> "ok", status |-> 0, ctype |-> "none",
            body |-> "none", out |-> "none",
            name |-> "list_inventories", args |-> "valid", calls |-> 0]

\* the GitHub worker not in use
GithubOff == [pc |-> "off"]

\* the parts of the state a specification leaves alone
NoWs ==
    /\ conn = [c \in Conns |-> NoConn]
    /\ active_connections = [u \in Users |-> "none"]
NoRun == run = RunOff
NoTool == tool = ToolOff
NoGithub == github = GithubOff
NoGate == gPc = "off" /\ gInput = OtherInput /\ gClassifier = "valid" /\ gOut = Allow
NoLaw == lawPc = "off" /\ lawUser = "u1" /\ lawHist = <<>> /\ lawRead = <<>>

\* ----------------------------------------------------- inputs of a turn
\* user_message of the t-th inbound message
UserMessage(t) == Text("", "message", t)

Explanation == Text("", "explanation", 0)
NoText == Text("", "", 0)

\* stream.final_output / result.final_output as the handlers read it with
\* getattr(final_output, name, ''): leader_output and chat_output carry an
\* explanation only (result and tool_name read as ''), the workers' outputs
\* carry result (and tool_name) too. The runs taken are an output whose
\* explanation is empty and a worker's answer with every field set.
LeaderEmpty == [explanation |-> NoText, result |-> "", tool_name |-> ""]
WorkerAnswer == [explanation |-> Explanation, result |-> "result", tool_name |-> "tool"]
FinalOutputs == {LeaderEmpty, WorkerAnswer}

\* Runner.run / Runner.run_streamed ends with a final output ("final"), with
\* final_output None ("nofinal"), or raises ("raise": MaxTurnsExceeded,
\* ModelBehaviorError, any other exception)
RunOutcomes == {"final", "nofinal", "raise"}

\* the_leader_agent = Agent(..., handoffs=[...], output_type=leader_output) with
\* the input_guardrails line commented out: the list is empty
LeaderInputGuardrails == {}

\* ChatRequest(BaseModel) has the fields user_id, content, request_type; it has
\* no attribute "get"
ChatRequestAttributes == {"user_id", "content", "request_type"}

\* slack_user_<slack id> in the side store: the awx_user_id, "" when none
SlackIds == {"S1", "S2"}
SlackUser(slack_user_id) == IF slack_user_id = "S1" THEN "u1" ELSE ""

\* a stored conversation of n entries written by earlier answered turns
\* (each answered turn stores the window it read, which holds role and content
\* only, then its own user entry and its assistant message with the tool fields)
OldEntry(i, n) ==
    IF i % 2 = 1 THEN UserEntry(Text("", "old", i))
    ELSE IF i < n THEN RoleContent(AssistantMessage(Text("", "old", i), "", ""))
    ELSE AssistantMessage(Text("", "old", i), "result", "tool")
OldHistory(n) == [i \in 1..n |-> OldEntry(i, n)]

\* what the key of u1 holds when the model starts: nothing, or a full window
\* plus the two entries of the last answered turn
InitialValues == {Absent, json_dumps(OldHistory(HistoryWindow + 2))}

\* handler tasks that can be in flight at once
Workers == {"w1", "w2"}

Idle ==
    [pc |-> "idle", transport |-> "none", user |-> "", msg |-> NoText,
     guarded |-> FALSE, history |-> <<>>, verdict |-> "none", ran |-> FALSE,
     outcome |-> "pending", final |-> LeaderEmpty, tripwire |-> FALSE,
     todo |-> <<>>, reply |-> "none",
     new_history |-> <<>>, save_called |-> FALSE, attempts |-> 0,
     watching |-> FALSE, dirty |-> FALSE, committed |-> FALSE,
     watched_at |-> 0, commit_at |-> 0, calls |-> 0,
     sent |-> <<>>, escaped |-> FALSE,
     slack_user_id |-> "", read |-> FALSE, save_raised |-> FALSE]


\* ------------------------------------------------------- handler steps
\* prompt_input = history.copy(); prompt_input.append({"role": "user", "content": enhanced_message})
PromptInput(r) == r.history \o <<UserEntry(EnhancedMessage(r.user, r.msg))>>

UpdatedHistoryAssistantOnly(history, user_message, assistant_message) ==
    history \o <<assistant_message>>

\* history + [{"role": "user", "content": user_message}, assistant_message]
UpdatedHistory(history, user_message, assistant_message) ==
    history \o <<UserEntry(user_message), assistant_message>>

\* save_history up to EXEC: pipe.watch(redis_key); pipe.get(redis_key);
\* json.loads. watch_ok = FALSE is a redis.RedisError or a json.JSONDecodeError
\* there: it is printed and save_history returns
SaveWatch(r, watch_ok) ==
    IF watch_ok
    THEN [r EXCEPT !.pc = "save_exec", !.attempts = @ + 1,
                   !.watching = TRUE, !.dirty = FALSE,
                   !.watched_at = commits[r.user]]
    ELSE [r EXCEPT !.pc = "saved", !.attempts = @ + 1]

SendTwice(r) == [r EXCEPT !.sent = Append(Append(@, r.reply), r.reply)]

\* websocket.send_json of the last frame, the HTTP response, send_reply
Send(r) == [r EXCEPT !.sent = Append(@, r.reply)]

\* The handler's remaining steps, "save" (save_history) and "send", taken up to
\* its next transaction on the store: what lies between two store commands of a
\* handler touches nothing another handler reads.
RECURSIVE Continue(_, _, _)
Continue(r, todo, watch_ok) ==
    IF todo = <<>> THEN [r EXCEPT !.pc = "done", !.todo = <<>>]
    ELSE IF Head(todo) = "send" THEN Continue(Send(r), Tail(todo), watch_ok)
    ELSE LET w == SaveWatch([r EXCEPT !.todo = Tail(todo)], watch_ok)
         IN  IF w.pc = "save_exec" THEN w ELSE Continue(w, Tail(todo), watch_ok)

\* if assistant_explanation:
MateriallyAnswered(final_output) == final_output.explanation.body # ""

PrefixedUserMessage(r) == EnhancedMessage(r.user, r.msg)

\* user_message as it is put into the stored user entry
StoredUserMessage(r) == r.msg

\* (a handler that reads the key again when it saves, appending to what is there)
AnsweredHistoryAppended(r, final_output) ==
    UpdatedHistory(get_history(store[r.user], TRUE), StoredUserMessage(r),
        AssistantMessage(final_output.explanation, final_output.result,
                         final_output.tool_name))

\* the answered branch of the three handlers:
\* assistant_message = {"role": "assistant", "content": assistant_explanation, ...}
\* updated_history = history + [{"role": "user", "content": user_message}, assistant_message]
AnsweredHistory(r, final_output) ==
    UpdatedHistory(r.history, StoredUserMessage(r),
        AssistantMessage(final_output.explanation, final_output.result,
                         final_output.tool_name))

\* the tripwire branch of handle_awx_chat and api_chat
BlockedHistory(r) == UpdatedHistory(r.history, StoredUserMessage(r), RefusalEntry)

\* if assistant_explanation: ... save_history(user_id, updated_history)
SavesHistory(final_output) == MateriallyAnswered(final_output)

\* handle_awx_chat from "if stream.final_output:" on, and the except clauses of
\* handle_awx_chat and websocket_endpoint: the steps left and the message to send
WsAfterRun(r, outcome, final_output) ==
    IF outcome = "final" THEN
        IF SavesHistory(final_output)
        THEN [r EXCEPT !.reply = "answer", !.save_called = TRUE,
                       !.new_history = AnsweredHistory(r, final_output),
                       !.todo = <<"save", "send">>]
        ELSE [r EXCEPT !.reply = "answer", !.todo = <<"send">>]
    ELSE IF outcome = "tripwire" THEN
        \* the refusal frame is sent, then the blocked turn is saved
        [r EXCEPT !.reply = "refusal", !.save_called = TRUE,
                  !.new_history = BlockedHistory(r), !.todo = <<"send", "save">>]
    ELSE \* final_data is unbound (UnboundLocalError), or the run raised: the
         \* except Exception of websocket_endpoint sends one error frame
        [r EXCEPT !.reply = "error", !.todo = <<"send">>]

\* api_chat from "if result.final_output:" on, and its except clauses
ApiAfterRun(r, outcome, final_output) ==
    IF outcome = "final" THEN
        IF SavesHistory(final_output)
        THEN [r EXCEPT !.reply = "answer", !.save_called = TRUE,
                       !.new_history = AnsweredHistory(r, final_output),
                       !.todo = <<"save", "send">>]
        ELSE [r EXCEPT !.reply = "answer", !.todo = <<"send">>]
    ELSE IF outcome = "tripwire" THEN
        [r EXCEPT !.reply = "refusal", !.save_called = TRUE,
                  !.new_history = BlockedHistory(r), !.todo = <<"save", "send">>]
    ELSE [r EXCEPT !.reply = "error", !.todo = <<"send">>]

\* background_slack_response from "if result.final_output:" on; its only except
\* clause is "except Exception", which the tripwire exception reaches too
SlackAfterRun(r, outcome, final_output) ==
    IF outcome = "final" THEN
        IF SavesHistory(final_output)
        THEN [r EXCEPT !.reply = "answer", !.save_called = TRUE,
                       !.new_history = AnsweredHistory(r, final_output),
                       !.todo = <<"save", "send">>]
        ELSE [r EXCEPT !.reply = "answer", !.todo = <<"send">>]
    ELSE \* "No response generated", or "Sorry, an error occurred while
         \* processing your request."
        [r EXCEPT !.reply = "error", !.todo = <<"send">>]

AfterRun(r, outcome, final_output, watch_ok) ==
    LET r1 == [r EXCEPT !.outcome = outcome,
                        !.final = IF outcome = "final" THEN final_output ELSE LeaderEmpty]
        r2 == IF r.transport = "ws" THEN WsAfterRun(r1, outcome, final_output)
              ELSE IF r.transport = "http" THEN ApiAfterRun(r1, outcome, final_output)
              ELSE SlackAfterRun(r1, outcome, final_output)
    IN  Continue(r2, r2.todo, watch_ok)

\* Runner.run(agent, prompt_input): the agent's input guardrails, when it has
\* any, are evaluated on the prompt first
BeginRun(r, input_guardrails) ==
    [r EXCEPT !.guarded = input_guardrails # {},
              !.pc = IF input_guardrails # {} THEN "guard" ELSE "run"]

InFlight == {t \in Turns : turn[t].pc \notin {"idle", "done"}}

\* turns are numbered in the order their messages arrive
CanStart(t) ==
    /\ turn[t].pc = "idle"
    /\ IF t = 1 THEN TRUE ELSE turn[t - 1].pc # "idle"
    /\ Cardinality(InFlight) < Cardinality(Workers)

\* what the WATCH and GET of save_history meet
WatchOk(user_id, redis_ok) == redis_ok /\ store[user_id].kind # "invalid"

\* ------------------------------------------------------------- transports
\* websocket_endpoint: receive_json, get_history, dispatch of an awx-chat
\* message to handle_awx_chat, up to Runner.run_streamed
WsChat(t) ==
    /\ CanStart(t)
    /\ \E user_id \in Users, redis_ok \in BOOLEAN :
         turn' = [turn EXCEPT ![t] =
            BeginRun([Idle EXCEPT !.transport = "ws", !.user = user_id,
                                  !.msg = UserMessage(t), !.read = TRUE,
                                  !.history = get_history(store[user_id], redis_ok)],
                     LeaderInputGuardrails)]
    /\ UNCHANGED <<store, commits, lawVars, gateVars, wsVars, run, tool, github>>

\* api_chat up to Runner.run. request.get('type') is the first statement of the
\* try block: with no such attribute it raises AttributeError, and the except
\* Exception clause then reads user_id, which is not bound yet: the
\* UnboundLocalError leaves the handler
ApiChat(t) ==
    /\ CanStart(t)
    /\ \E user_id \in Users, redis_ok \in BOOLEAN :
         LET r == [Idle EXCEPT !.transport = "http", !.user = user_id,
                               !.msg = UserMessage(t)]
         IN  turn' = [turn EXCEPT ![t] =
                IF "get" \notin ChatRequestAttributes
                THEN \* the ASGI server answers the escaped exception with its
                     \* 500 response
                     [r EXCEPT !.pc = "done", !.outcome = "escaped", !.escaped = TRUE,
                               !.sent = <<"server_error">>]
                ELSE BeginRun([r EXCEPT !.read = TRUE,
                                        !.history = get_history(store[user_id], redis_ok)],
                              LeaderInputGuardrails)]
    /\ UNCHANGED <<store, commits, lawVars, gateVars, wsVars, run, tool, github>>

LoginAfterRun(r) ==
    Continue([r EXCEPT !.outcome = "login", !.reply = "login", !.read = TRUE,
                       !.ran = TRUE], <<"send">>, TRUE)

\* the else branch of "if awx_user_id != False":
\* await send_reply(channel, "", button=True, tagName=slack_user_id)
LoginChallenge(r) ==
    Continue([r EXCEPT !.outcome = "login", !.reply = "login"], <<"send">>, TRUE)

\* background_slack_response up to Runner.run. get_user_id_from_slack_id runs
\* before the try block and reads the side store without catching RedisError.
\* the_leader_agent is a parameter: the agent handed in may carry the input
\* guardrail or not
SlackEvent(t) ==
    /\ CanStart(t)
    /\ \E slack_user_id \in SlackIds,
          input_guardrails \in {{}, {"security_request_guardrail"}},
          lookup_ok \in BOOLEAN, redis_ok \in BOOLEAN :
         LET r == [Idle EXCEPT !.transport = "slack", !.msg = UserMessage(t),
                               !.slack_user_id = slack_user_id]
             awx_user_id == SlackUser(slack_user_id)
         IN  turn' = [turn EXCEPT ![t] =
                IF ~lookup_ok
                THEN [r EXCEPT !.pc = "done", !.outcome = "escaped", !.escaped = TRUE]
                ELSE IF awx_user_id = ""
                THEN LoginChallenge(r)
                ELSE BeginRun([r EXCEPT !.user = awx_user_id, !.read = TRUE,
                                 !.history = get_history(store[awx_user_id], redis_ok)],
                              input_guardrails)]
    /\ UNCHANGED <<store, commits, lawVars, gateVars, wsVars, run, tool, github>>

\* the input guardrail of the starting agent, run on the prompt
Guardrail(t) ==
    /\ turn[t].pc = "guard"
    /\ \E classifier \in ClassifierOutcomes, redis_ok \in BOOLEAN :
         LET r == turn[t]
             out == security_request_guardrail(PromptAsInput(PromptInput(r)), classifier)
         IN  turn' = [turn EXCEPT ![t] =
                IF out.raised
                THEN AfterRun(r, "raise", LeaderEmpty, WatchOk(r.user, redis_ok))
                ELSE IF out.tripwire_triggered
                THEN AfterRun([r EXCEPT !.verdict = "reject", !.tripwire = TRUE],
                              "tripwire", LeaderEmpty, WatchOk(r.user, redis_ok))
                ELSE [r EXCEPT !.verdict = "allow", !.pc = "run"]]
    /\ UNCHANGED <<store, commits, lawVars, gateVars, wsVars, run, tool, github>>

\* the leader agent's run (with its handoff and tool calls), then the handler's
\* code up to its next transaction on the store
Orchestrate(t) ==
    /\ turn[t].pc = "run"
    /\ \E outcome \in RunOutcomes, final_output \in FinalOutputs, redis_ok \in BOOLEAN :
         turn' = [turn EXCEPT ![t] =
            AfterRun([turn[t] EXCEPT !.ran = TRUE], outcome, final_output,
                     WatchOk(turn[t].user, redis_ok))]
    /\ UNCHANGED <<store, commits, lawVars, gateVars, wsVars, run, tool, github>>

\* (a write that stops one item short)
PartialValue(new_history) ==
    json_dumps(IF new_history = <<>> THEN <<>>
               ELSE SubSeq(new_history, 1, Len(new_history) - 1))

\* the value SET by the transaction
StoredValue(new_history) == json_dumps(new_history)

CommitValueReplayAppends(r) ==
    IF r.attempts > 1
    THEN json_dumps(store[r.user].items \o r.new_history)
    ELSE StoredValue(r.new_history)

\* user_data = new_history; pipe.set(redis_key, json.dumps(user_data)): every
\* attempt of a call, the first and a replay alike, sets the caller's argument
CommitValue(r) == StoredValue(r.new_history)

\* json.dumps raises TypeError inside save_history: none of its except clauses
\* (WatchError, RedisError, JSONDecodeError) takes it, so it reaches the caller,
\* whose "except Exception" sends the error message
SaveRaise(r) ==
    LET r1 == [r EXCEPT !.save_raised = TRUE]
    IN  IF r.transport = "call" THEN [r1 EXCEPT !.pc = "done", !.todo = <<>>]
        ELSE Continue([r1 EXCEPT !.reply = "error"], <<"send">>, TRUE)

\* Nested save_history calls the interpreter allows before the retry raises
\* RecursionError (its recursion limit, 1000 frames unless changed, less the
\* frames of the caller; taken small here).
MaxDepth == 4

\* the self-call of the except WatchError clause has no bound of its own: it
\* is stopped by the interpreter only
RecursionLimitHit(r) == r.attempts >= MaxDepth

\* save_history: pipe.multi(); pipe.set(redis_key, json.dumps(user_data));
\* pipe.execute(). EXEC fails with WatchError when the watched key was written
\* since WATCH, and save_history calls itself again (a self-call beyond the
\* interpreter's recursion limit raises RecursionError, which no except clause
\* of save_history takes); a redis.RedisError is printed only
SaveExec(t) ==
    /\ turn[t].pc = "save_exec"
    /\ \E redis_ok \in BOOLEAN, rewatch_ok \in BOOLEAN :
         LET r == [turn[t] EXCEPT !.watching = FALSE, !.dirty = FALSE]
         IN  IF json_dumps_raises(r.new_history)
             THEN /\ turn' = [turn EXCEPT ![t] = SaveRaise(r)]
                  /\ UNCHANGED <<store, commits>>
             ELSE IF ~redis_ok
             THEN /\ turn' = [turn EXCEPT ![t] = Continue(r, r.todo, TRUE)]
                  /\ UNCHANGED <<store, commits>>
             ELSE IF turn[t].dirty
             THEN /\ turn' = [turn EXCEPT ![t] =
                        IF RecursionLimitHit(r) THEN SaveRaise(r)
                        ELSE LET w == SaveWatch(r, WatchOk(r.user, rewatch_ok))
                             IN  IF w.pc = "save_exec" THEN w
                                 ELSE Continue(w, w.todo, TRUE)]
                  /\ UNCHANGED <<store, commits>>
             ELSE /\ store' = [store EXCEPT ![r.user] = CommitValue(r)]
                  /\ commits' = [commits EXCEPT ![r.user] = @ + 1]
                  /\ turn' = [s \in Turns |->
                        IF s = t
                        THEN Continue([r EXCEPT !.committed = TRUE,
                                                !.commit_at = commits[r.user]],
                                      r.todo, TRUE)
                        ELSE IF turn[s].watching /\ turn[s].user = r.user
                        THEN [turn[s] EXCEPT !.dirty = TRUE]
                        ELSE turn[s]]
    /\ UNCHANGED <<lawVars, gateVars, wsVars, run, tool, github>>

Init ==
    /\ store \in {[u \in Users |-> IF u = "u1" THEN v ELSE Absent] : v \in InitialValues}
    /\ commits = [u \in Users |-> 0]
    /\ turn = [t \in Turns |-> Idle]
    /\ lawPc = "off" /\ lawUser = "u1" /\ lawHist = <<>> /\ lawRead = <<>>
    /\ gPc = "off" /\ gInput = OtherInput /\ gClassifier = "valid" /\ gOut = Allow
    /\ NoWs /\ NoRun /\ NoTool /\ NoGithub

Next ==
    \E t \in Turns :
        \/ WsChat(t)
        \/ ApiChat(t)
        \/ SlackEvent(t)
        \/ Guardrail(t)
        \/ Orchestrate(t)
        \/ SaveExec(t)

Spec == Init /\ [][Next]_vars


\* ------------------------------------- save_history called on its own
\* Calls of save_history one caller makes, one after the other.
MaxCalls == 2

\* histories handed to save_history
SaveHistories == {OldHistory(2), OldHistory(4), <<UserEntry(NotJson)>>}

\* save_history(user_id, new_history), up to its EXEC
SaveCall(t) ==
    /\ turn[t].pc \in {"idle", "done"}
    /\ turn[t].calls < MaxCalls
    /\ \E user_id \in Users, new_history \in SaveHistories, redis_ok \in BOOLEAN :
         turn' = [turn EXCEPT ![t] =
            Continue([Idle EXCEPT !.transport = "call", !.user = user_id,
                                  !.calls = turn[t].calls + 1,
                                  !.save_called = TRUE, !.new_history = new_history],
                     <<"save">>, WatchOk(user_id, redis_ok))]
    /\ UNCHANGED <<store, commits, lawVars, gateVars, wsVars, run, tool, github>>

InitSave ==
    /\ store = [u \in Users |-> Absent]
    /\ commits = [u \in Users |-> 0]
    /\ turn = [t \in Turns |-> Idle]
    /\ lawPc = "off" /\ lawUser = "u1" /\ lawHist = <<>> /\ lawRead = <<>>
    /\ gPc = "off" /\ gInput = OtherInput /\ gClassifier = "valid" /\ gOut = Allow
    /\ NoWs /\ NoRun /\ NoTool /\ NoGithub

NextSave == \E t \in Turns : SaveCall(t) \/ SaveExec(t)

SpecSave == InitSave /\ [][NextSave]_vars

\* ------------------------------- save_history against other writers of the key
\* another client of the store (another server process, an operator's tool)
\* sets the key while a save_history call watches it
OtherClientWrite(u) ==
    /\ \E t \in Turns : turn[t].watching /\ turn[t].user = u /\ ~turn[t].dirty
    /\ store' = [store EXCEPT ![u] = json_dumps(OldHistory(2))]
    /\ commits' = [commits EXCEPT ![u] = @ + 1]
    /\ turn' = [s \in Turns |->
                  IF turn[s].watching /\ turn[s].user = u
                  THEN [turn[s] EXCEPT !.dirty = TRUE] ELSE turn[s]]
    /\ UNCHANGED <<lawVars, gateVars, wsVars, run, tool, github>>

\* one caller of save_history (the first handler task) against the other
\* clients of the store
NextContend ==
    \/ SaveCall(1)
    \/ SaveExec(1)
    \/ \E u \in Users : OtherClientWrite(u)

SpecContend == InitSave /\ [][NextContend]_vars

\* a save_history call that has started goes on running
SpecContendLive == SpecContend /\ WF_vars(SaveExec(1))

\* --------------------------- get_history right after a successful save_history
\* a history of n turns: as a handler stores it ("stored"), with role and
\* content only ("plain"), or with the tool fields on every assistant turn ("full")
LawShapes == {"stored", "plain", "full"}

LawHistory(n, shape) ==
    [i \in 1..n |->
        IF shape = "stored" THEN OldEntry(i, n)
        ELSE IF shape = "plain" THEN RoleContent(OldEntry(i, n))
        ELSE OldEntry(i, i)]

LawHistories == {LawHistory(n, shape) : n \in 0..MaxLawLen, shape \in LawShapes}

\* save_history(user_id, history) whose transaction commits at once
LawSave ==
    /\ lawPc = "start"
    /\ store' = [store EXCEPT ![lawUser] = StoredValue(lawHist)]
    /\ commits' = [commits EXCEPT ![lawUser] = @ + 1]
    /\ lawPc' = "saved"
    /\ UNCHANGED <<turn, lawUser, lawHist, lawRead, gateVars, wsVars, run, tool, github>>

\* get_history(user_id) next
LawGet ==
    /\ lawPc = "saved"
    /\ lawRead' = get_history(store[lawUser], TRUE)
    /\ lawPc' = "read"
    /\ UNCHANGED <<store, commits, turn, lawUser, lawHist, gateVars, wsVars, run, tool, github>>

InitLaw ==
    /\ store = [u \in Users |-> Absent]
    /\ commits = [u \in Users |-> 0]
    /\ turn = [t \in Turns |-> Idle]
    /\ lawPc = "start" /\ lawUser \in Users /\ lawHist \in LawHistories /\ lawRead = <<>>
    /\ gPc = "off" /\ gInput = OtherInput /\ gClassifier = "valid" /\ gOut = Allow
    /\ NoWs /\ NoRun /\ NoTool /\ NoGithub

NextLaw == LawSave \/ LawGet

SpecLaw == InitLaw /\ [][NextLaw]_vars

\* --------------------------------------------- get_history called on its own
\* Longest stored list get_history is called on.
MaxReadLen == 3

\* items of a stored list: two well-formed turns, a dict without "content", a
\* dict without "role", and a JSON string
RawItems ==
    {UserEntry(Text("", "old", 1)), AssistantMessage(Text("", "old", 2), "result", "tool"),
     [role |-> "user"], [content |-> Text("", "old", 1)], [value |-> "text"]}

\* what the key can hold: nothing, text that is not JSON, JSON that is not a
\* list, or the JSON of a list
RawValues ==
    {Absent, [kind |-> "invalid", items |-> <<>>], [kind |-> "dict", items |-> <<>>]}
    \cup {json_dumps(items) : items \in UNION {[1..k -> RawItems] : k \in 0..MaxReadLen}}

\* item["role"] / item["content"] raises KeyError (a dict without the key) or
\* TypeError (not a dict); the except clause of get_history names
\* redis.RedisError and json.JSONDecodeError only
get_history_raises(raw, redis_ok) ==
    /\ redis_ok
    /\ raw.kind = "list"
    /\ \E i \in 1..Len(raw.items) : ~({"role", "content"} \subseteq DOMAIN raw.items[i])

\* get_history(user_id), the store reachable or not
ReadCall ==
    /\ lawPc = "get"
    /\ \E redis_ok \in BOOLEAN :
         IF get_history_raises(store[lawUser], redis_ok)
         THEN lawPc' = "raised" /\ lawRead' = <<>>
         ELSE /\ lawPc' = (IF redis_ok THEN "got" ELSE "got_unreachable")
              /\ lawRead' = get_history(store[lawUser], redis_ok)
    /\ UNCHANGED <<store, commits, turn, lawUser, lawHist, gateVars, wsVars, run, tool, github>>

InitRead ==
    /\ store \in {[u \in Users |-> IF u = "u1" THEN v ELSE Absent] : v \in RawValues}
    /\ commits = [u \in Users |-> 0]
    /\ turn = [t \in Turns |-> Idle]
    /\ lawPc = "get" /\ lawUser = "u1" /\ lawHist = <<>> /\ lawRead = <<>>
    /\ NoGate /\ NoWs /\ NoRun /\ NoTool /\ NoGithub

NextRead == ReadCall

SpecRead == InitRead /\ [][NextRead]_vars

\* ------------------------------------------- the WebSocket endpoint
\* Messages received over all connections of one behaviour.
MaxWsMsgs == 2
\* Events of one streamed run.
MaxEvents == 2

\* {"request_type": ..., "content": ...} of a frame sent while the run streams;
\* index is the position of its event in the stream
Frame(request_type, index) == [request_type |-> request_type, index |-> index]

DeliverFirst(frames, frame) == <<frame>> \o frames

\* a frame handed to an open connection reaches the client after the earlier ones
Deliver(frames, frame) == Append(frames, frame)

\* await websocket.send_json(frame) inside the stream loop: the frame reaches
\* the client, or the client has gone and it reaches nobody
SendJson(r, frame) ==
    IF r.client = "up" THEN [r EXCEPT !.frames = Deliver(@, frame)] ELSE r

\* the last send_json of a message's handling: conn.last is the request_type
\* of the frame when it reached the client; the stream's locals are gone
SendLast(r, request_type) ==
    [r EXCEPT !.last = IF r.client = "up" THEN request_type ELSE "none",
              !.frames = <<>>, !.events = 0]

\* send_json on a connection whose client has gone: the server drops the frame
\* silently ("dropped"), or raises WebSocketDisconnect ("disconnect") or
\* another exception ("error"), depending on the server library
SendResults(r) ==
    IF r.client = "up" THEN {"ok"} ELSE {"dropped", "disconnect", "error"}
SendRaises(send_result) == send_result \in {"disconnect", "error"}

FailContinues(r, exc, outcome) ==
    SendLast([r EXCEPT !.outcome = outcome, !.pc = "recv", !.history = <<>>], "error")

\* an exception leaves handle_awx_chat: "except WebSocketDisconnect" only
\* prints; "except Exception" sends one error frame; the loop is left
Fail(r, exc, outcome) ==
    LET r1 == [r EXCEPT !.outcome = outcome, !.pc = "ended", !.history = <<>>]
    IN  IF exc = "disconnect" THEN SendLast([r1 EXCEPT !.client = "gone"], "none")
        ELSE SendLast(r1, "error")

\* one step of websocket_endpoint for connection c, with its finally clause:
\* if connection_id in active_connections: del active_connections[connection_id]
EndpointStep(c, r) ==
    /\ conn' = [conn EXCEPT ![c] = r]
    /\ active_connections' =
          IF r.pc = "ended" THEN [active_connections EXCEPT ![r.user] = "none"]
          ELSE active_connections

\* await websocket.accept(); active_connections[connection_id] = websocket
\* (the connections are numbered in the order they are opened)
Connect(c) ==
    /\ conn[c].pc = "closed"
    /\ c = "c2" => conn["c1"].pc # "closed"
    /\ \E user_id \in Users :
         /\ conn' = [conn EXCEPT ![c] = [NoConn EXCEPT !.pc = "recv", !.user = user_id,
                                                       !.client = "up"]]
         /\ active_connections' = [active_connections EXCEPT ![user_id] = c]
    /\ UNCHANGED <<store, commits, turn, lawVars, gateVars, run, tool, github>>

ClientGoneCancels(r) == [r EXCEPT !.client = "gone", !.pc = "ended"]

\* the client drops the connection: nothing in the server runs at that moment
ClientGone(r) == [r EXCEPT !.client = "gone"]

Disconnect(c) ==
    /\ conn[c].client = "up"
    /\ conn[c].pc \in {"recv", "stream"}
    /\ conn' = [conn EXCEPT ![c] = ClientGone(conn[c])]
    /\ UNCHANGED <<store, commits, turn, lawVars, gateVars, active_connections, run, tool, github>>

\* data = await websocket.receive_json() on a dropped connection raises
\* WebSocketDisconnect
ReceiveDisconnect(c) ==
    /\ conn[c].pc = "recv" /\ conn[c].client = "gone"
    /\ EndpointStep(c, [conn[c] EXCEPT !.pc = "ended"])
    /\ UNCHANGED <<store, commits, turn, lawVars, gateVars, run, tool, github>>

DispatchUnknownEnds(r, request_type) ==
    IF request_type = "conversation-history"
    THEN SendLast(r, "conversation-history")
    ELSE IF request_type = "awx-chat"
    THEN [r EXCEPT !.pc = "stream"]
    ELSE Fail(r, "error", "none")

\* the if / elif / else on request_type: the history is sent back, or
\* handle_awx_chat starts the streamed run, or an error frame is sent and the
\* loop continues
Dispatch(r, request_type) ==
    IF request_type = "conversation-history"
    THEN SendLast(r, "conversation-history")
    ELSE IF request_type = "awx-chat"
    THEN [r EXCEPT !.pc = "stream"]
    ELSE SendLast([r EXCEPT !.history = <<>>], "error")

\* receive_json, get_history, dispatch on request_type; for an awx-chat message
\* handle_awx_chat up to Runner.run_streamed
Receive(c) ==
    /\ conn[c].pc = "recv" /\ conn[c].client = "up"
    /\ conn["c1"].n + conn["c2"].n < MaxWsMsgs
    /\ \E request_type \in {"awx-chat", "conversation-history", "unknown"},
          redis_ok \in BOOLEAN :
         LET r == [conn[c] EXCEPT !.n = @ + 1, !.request_type = request_type,
                                  !.last = "none", !.outcome = "none", !.saved = FALSE,
                                  !.history = get_history(store[conn[c].user], redis_ok)]
         IN  EndpointStep(c, Dispatch(r, request_type))
    /\ UNCHANGED <<store, commits, turn, lawVars, gateVars, run, tool, github>>

\* async for event in stream.stream_events(): an event of another kind is
\* passed over; a raw_response_event with a delta ("delta") is sent as a token
\* frame, a tool_call_created event as a notification
StreamEvent(c) ==
    /\ conn[c].pc = "stream"
    /\ conn[c].events < MaxEvents
    /\ LET r == [conn[c] EXCEPT !.events = @ + 1]
       IN  \/ EndpointStep(c, r)
           \/ \E kind \in {"delta", "tool_call_created"}, send_result \in SendResults(r) :
                 EndpointStep(c,
                    IF SendRaises(send_result) THEN Fail(r, send_result, "send_failed")
                    ELSE SendJson(r, Frame(IF kind = "delta" THEN "awx-chat-token"
                                           ELSE "awx-chat", r.events)))
    /\ UNCHANGED <<store, commits, turn, lawVars, gateVars, run, tool, github>>

\* the two entries handle_awx_chat adds for the connection's current message
WsAnswered(r, final_output) ==
    UpdatedHistory(r.history, UserMessage(r.n),
        AssistantMessage(final_output.explanation, final_output.result,
                         final_output.tool_name))

\* the stream ends: handle_awx_chat from "if stream.final_output:" on.
\* save_history is taken as one step: its transaction, retried on a conflict,
\* ends with the key set to the new history or with a printed RedisError
Finish(c) ==
    /\ conn[c].pc = "stream"
    /\ LET r == conn[c]
       IN  \/ \E outcome \in RunOutcomes \ {"final"} :
                 /\ EndpointStep(c, Fail(r, "error", outcome))
                 /\ UNCHANGED <<store, commits>>
           \/ \E final_output \in FinalOutputs, redis_ok \in BOOLEAN,
                 send_result \in SendResults(r) :
                 LET saves == SavesHistory(final_output) /\ redis_ok
                     r1 == [r EXCEPT !.outcome = "final", !.saved = saves, !.pc = "recv",
                                     !.history = <<>>]
                 IN  /\ EndpointStep(c,
                           IF SendRaises(send_result) THEN Fail(r1, send_result, "final")
                           ELSE SendLast(r1, "awx-chat"))
                     /\ IF saves
                        THEN /\ store' = [store EXCEPT ![r.user] =
                                            StoredValue(WsAnswered(r, final_output))]
                             /\ commits' = [commits EXCEPT ![r.user] = @ + 1]
                        ELSE UNCHANGED <<store, commits>>
    /\ UNCHANGED <<turn, lawVars, gateVars, run, tool, github>>

InitWs ==
    /\ store = [u \in Users |-> Absent]
    /\ commits = [u \in Users |-> 0]
    /\ turn = [t \in Turns |-> Idle]
    /\ NoLaw /\ NoGate /\ NoRun /\ NoTool /\ NoGithub
    /\ NoWs

NextWs ==
    \E c \in Conns :
        \/ Connect(c)
        \/ Disconnect(c)
        \/ ReceiveDisconnect(c)
        \/ Receive(c)
        \/ StreamEvent(c)
        \/ Finish(c)

SpecWs == InitWs /\ [][NextWs]_vars

\* ------------------------------------------- one run of the leader agent
\* Runner.run(the_leader_agent, prompt_input, max_turns=40)
max_turns == 40

HandoffsBack(agent) ==
    IF agent = "the_leader_agent"
    THEN {"chat_agent", "awx_worker_agent", "awx_github_agent"}
    ELSE {"the_leader_agent"}

\* handoffs=[chat_agent, awx_worker_agent, awx_github_agent] of the leader; the
\* three specialists are built without a handoffs argument
Handoffs(agent) ==
    IF agent = "the_leader_agent"
    THEN {"chat_agent", "awx_worker_agent", "awx_github_agent"}
    ELSE {}

\* tools=[...] / mcp_servers=[...]: the two workers have tools to call
HasTools(agent) == agent \in {"awx_worker_agent", "awx_github_agent"}

NoBudget(turns) == FALSE

\* the budget of the run is used up
BudgetExceeded(turns) == turns > max_turns

\* One turn of the run: the current agent's model is called and answers with
\* its final output, with tool calls (the tools run and the agent is called
\* again), with a handoff to an agent of its handoffs list, or the call fails.
\* A turn beyond max_turns is not taken: the run raises MaxTurnsExceeded.
RunTurn ==
    /\ run.state = "running"
    /\ \/ /\ BudgetExceeded(run.turns + 1)
          /\ run' = [run EXCEPT !.state = "failed", !.turns = @ + 1]
       \/ /\ ~BudgetExceeded(run.turns + 1)
          /\ \/ run' = [run EXCEPT !.state = "done", !.turns = @ + 1]
             \/ run' = [run EXCEPT !.state = "failed", !.turns = @ + 1]
             \/ /\ HasTools(run.agent)
                /\ run' = [run EXCEPT !.turns = @ + 1]
             \/ \E target \in Handoffs(run.agent) :
                   run' = [run EXCEPT !.agent = target, !.turns = @ + 1,
                                     !.handoffs = @ + 1]
    /\ UNCHANGED <<store, commits, turn, lawVars, gateVars, wsVars, tool, github>>

InitRun ==
    /\ store = [u \in Users |-> Absent]
    /\ commits = [u \in Users |-> 0]
    /\ turn = [t \in Turns |-> Idle]
    /\ NoLaw /\ NoGate /\ NoWs /\ NoTool /\ NoGithub
    /\ run = [RunOff EXCEPT !.state = "running", !.agent = "the_leader_agent"]

NextRun == RunTurn

SpecRun == InitRun /\ [][NextRun]_vars

\* the run is a coroutine that is resumed whenever the model call or tool call
\* it awaits returns
SpecRunLive == SpecRun /\ WF_vars(RunTurn)

\* ------------------------------------------------------ make_request
\* response.status_code of the platform's answers
Statuses == {200, 201, 202, 204, 400, 401, 404, 500}

\* what client.request meets: no answer (httpx raises ConnectError or a
\* TimeoutException), or a response with a status, a Content-Type that names
\* application/json or not, and a body that parses as JSON or not
ToolResponses ==
    {[ToolOff EXCEPT !.pc = "call", !.net = n] : n \in {"error", "timeout"}}
    \cup {[ToolOff EXCEPT !.pc = "call", !.status = st, !.ctype = ct, !.body = b] :
             st \in Statuses, ct \in {"json", "text", "none"},
             b \in {"json", "malformed", "text", "empty"}}

\* make_request(url, method, json): what it returns, "raised" when an exception
\* leaves it
make_request(r) ==
    IF r.net # "ok" THEN "raised"
    ELSE IF r.status \notin {200, 201} THEN "error_text"
    ELSE IF r.ctype = "json"
         THEN (IF r.body = "json" THEN "payload_json" ELSE "raised")
    ELSE "payload_text"

\* Three tools of the bundle stand for its 272: list_inventories is
\* "return await make_request(url)", as most of them are;
\* create_inventory_source checks its arguments first; install_license passes
\* make_request a keyword it does not have (data=), as thirteen others do.
ToolNames == {"list_inventories", "create_inventory_source", "install_license"}

\* if source not in valid_sources: return "Error: ..."; if not credential_id:
\* return "Error: ..."
ArgsRefused(r) == r.name = "create_inventory_source" /\ r.args = "invalid"

\* make_request(url, method="POST", data={...}): TypeError, unexpected keyword
\* argument 'data', raised before the body of make_request runs
BadKeyword(r) == r.name = "install_license"

\* how many times client.request is awaited by one invocation
OutboundCalls(r) == IF ArgsRefused(r) \/ BadKeyword(r) THEN 0 ELSE 1

\* what the tool function returns, "raised" when an exception leaves it
Invoke(r) ==
    IF BadKeyword(r) THEN "raised"
    ELSE IF ArgsRefused(r) THEN "error_text"
    ELSE make_request(r)

\* one invocation of a tool of the bundle
ToolCall ==
    /\ tool.pc = "call"
    /\ tool' = [tool EXCEPT !.pc = "done", !.calls = OutboundCalls(tool),
                            !.out = Invoke(tool)]
    /\ UNCHANGED <<store, commits, turn, lawVars, gateVars, wsVars, run, github>>

InitTool ==
    /\ store = [u \in Users |-> Absent]
    /\ commits = [u \in Users |-> 0]
    /\ turn = [t \in Turns |-> Idle]
    /\ NoLaw /\ NoGate /\ NoWs /\ NoRun /\ NoGithub
    /\ tool \in ToolResponses

NextTool == ToolCall

SpecTool == InitTool /\ [][NextTool]_vars

\* any tool of the bundle, its arguments acceptable to its own checks or not
InitBundle ==
    /\ store = [u \in Users |-> Absent]
    /\ commits = [u \in Users |-> 0]
    /\ turn = [t \in Turns |-> Idle]
    /\ NoLaw /\ NoGate /\ NoWs /\ NoRun /\ NoGithub
    /\ tool \in {[r EXCEPT !.name = name, !.args = args] :
                    r \in ToolResponses, name \in ToolNames,
                    args \in {"valid", "invalid"}}

SpecBundle == InitBundle /\ [][NextTool]_vars

\* ------------------------------------------- the guardrail gate on its own
\* Longest input list handed to the guardrail.
MaxGateLen == 2

GateInputs ==
    {OtherInput, StrInput(""), StrInput("text")}
    \cup {ListInput(items) : items \in UNION {[1..k -> ItemKinds] : k \in 0..MaxGateLen}}

\* security_request_guardrail(ctx, agent, input)
GateCall ==
    /\ gPc = "call"
    /\ \E classifier \in ClassifierOutcomes :
         /\ gClassifier' = classifier
         /\ gOut' = security_request_guardrail(gInput, classifier)
    /\ gPc' = "done"
    /\ UNCHANGED <<store, commits, turn, lawVars, gInput, wsVars, run, tool, github>>

InitGate ==
    /\ store = [u \in Users |-> Absent]
    /\ commits = [u \in Users |-> 0]
    /\ turn = [t \in Turns |-> Idle]
    /\ lawPc = "off" /\ lawUser = "u1" /\ lawHist = <<>> /\ lawRead = <<>>
    /\ gPc = "call" /\ gInput \in GateInputs /\ gClassifier = "valid" /\ gOut = Allow
    /\ NoWs /\ NoRun /\ NoTool /\ NoGithub

NextGate == GateCall

SpecGate == InitGate /\ [][NextGate]_vars


\* ================================================================ claims
\* the two entries an answered turn adds, written out from the turn's inputs
\* and the run's final output
ExpectedAnswered(t) ==
    turn[t].history \o
    << [role |-> "user", content |-> [prefix |-> "", body |-> "message", n |-> t]],
       [role |-> "assistant", content |-> turn[t].final.explanation,
        tool_result |-> turn[t].final.result, tool_name |-> turn[t].final.tool_name] >>

AsStored(items) == [kind |-> "list", items |-> items]

\* C1 as stated: get_history right after a successful save_history(history)
\* returns the last 20 items of history, in order, and never more than 20.
C1_Original ==
    lawPc = "read" => (Len(lawRead) <= 20 /\ lawRead = LastN(lawHist, 20))

\* C1 amended: get_history right after a successful save_history(history)
\* returns, for the last 20 items of history (all of them when there are 20 or
\* fewer), in the same order, the role and the content of each item and nothing
\* else of it; never more than 20 items.
C1_TruncationLaw ==
    lawPc = "read" =>
        LET n == Len(lawHist)
            k == IF n <= 20 THEN n ELSE 20
        IN  /\ Len(lawRead) = k
            /\ \A i \in 1..k :
                 /\ DOMAIN lawRead[i] = {"role", "content"}
                 /\ lawRead[i].role = lawHist[n - k + i].role
                 /\ lawRead[i].content = lawHist[n - k + i].content

C1_Witness ==
    /\ lawPc = "read"
    /\ Len(lawHist) > 20
    /\ Len(lawRead) = 20
    /\ "tool_result" \in DOMAIN lawHist[Len(lawHist)]

AnsweredAndWritten(t) ==
    /\ turn[t].pc = "done"
    /\ turn[t].outcome = "final"
    /\ turn[t].final.explanation.body # ""
    /\ turn[t].committed

\* C2: when two answered turns of one user read the same history and both
\* writes complete (no third turn writes the key), the stored value is exactly
\* what one of the two wrote, its read window plus its own two entries: never
\* a merge, never a part.
C2_LostUpdate ==
    \A a, b \in Turns :
        ( /\ a # b
          /\ AnsweredAndWritten(a) /\ AnsweredAndWritten(b)
          /\ turn[a].user = turn[b].user
          /\ turn[a].history = turn[b].history
          /\ \A c \in Turns \ {a, b} :
                ~(turn[c].committed /\ turn[c].user = turn[a].user) )
        => store[turn[a].user] \in {AsStored(ExpectedAnswered(a)), AsStored(ExpectedAnswered(b))}

C2_Witness ==
    \E a, b \in Turns :
        /\ a # b
        /\ AnsweredAndWritten(a) /\ AnsweredAndWritten(b)
        /\ turn[a].user = turn[b].user
        /\ turn[a].history = turn[b].history
        /\ Len(turn[a].history) = 20
        /\ turn[b].attempts = 2
        /\ store[turn[a].user] = AsStored(ExpectedAnswered(b))

\* C3: one save_history call makes at most two transaction attempts.
C3_AtMostTwoAttempts == \A t \in Turns : turn[t].attempts <= 2

\* the values a key can hold in full: what it held at the start and every
\* history handed to save_history for it
CompleteValues(u) ==
    (IF u = "u1" THEN InitialValues ELSE {Absent})
    \cup {AsStored(turn[t].new_history) :
            t \in {x \in Turns : turn[x].save_called /\ turn[x].user = u}}

\* C4: a key always holds a value some writer handed over in full (or its first
\* value); every history a handler has read is the window of such a value; a
\* transaction commits only when no other commit on the key came between its
\* WATCH and its EXEC, so commits on a key are one at a time.
C4_AtomicWrites ==
    /\ \A u \in Users : store[u] \in CompleteValues(u)
    /\ \A t \in Turns :
          turn[t].user \in Users =>
             turn[t].history \in
                {<<>>} \cup {get_history(v, TRUE) : v \in CompleteValues(turn[t].user)}
    /\ \A t \in Turns : turn[t].committed => turn[t].commit_at = turn[t].watched_at
    /\ \A a, b \in Turns :
          (a # b /\ turn[a].committed /\ turn[b].committed
           /\ turn[a].user = turn[b].user) => turn[a].commit_at # turn[b].commit_at

C4_Witness ==
    \E a, b \in Turns :
        /\ a # b
        /\ turn[a].pc = "save_exec" /\ turn[a].dirty
        /\ turn[b].committed
        /\ turn[a].user = turn[b].user
        /\ turn[a].history = turn[b].history
        /\ Len(turn[a].history) = 20

\* C5: the orchestrator runs for a turn only after the guardrail gave that turn
\* a verdict, and only when the verdict is not REJECT.
C5_GateBeforeOrchestrator ==
    \A t \in Turns : turn[t].ran => turn[t].verdict = "allow"

\* C6: a turn whose guardrail tripwire fired ends with the fixed refusal sent
\* and with the history it read plus the user message and the refusal saved.
C6_RejectionEffect ==
    \A t \in Turns :
        (turn[t].tripwire /\ turn[t].pc = "done") =>
            /\ turn[t].sent = <<"refusal">>
            /\ turn[t].save_called
            /\ turn[t].new_history =
                 turn[t].history \o
                 << [role |-> "user", content |-> [prefix |-> "", body |-> "message", n |-> t]],
                    [role |-> "assistant", content |-> RefusalText] >>

\* C7: when the gate cannot be evaluated (malformed input, an error while
\* building the message, a failing classifier run) security_request_guardrail
\* returns tripwire_triggered = False; it neither raises nor rejects.
C7_FailOpen ==
    (gPc = "done" /\ (gClassifier = "error" \/ gInput.type = "other" \/ BuildRaises(gInput)))
    => gOut = [raised |-> FALSE, tripwire_triggered |-> FALSE]

\* C8: a turn that has ended has sent the user exactly one terminal message.
C8_ExactlyOneTerminal ==
    \A t \in Turns : turn[t].pc = "done" => Len(turn[t].sent) = 1

\* C9: a turn whose run raised ends with one error message sent to the client,
\* inside the handler, and without any write to the store by that turn.
C9_OrchestrationFailure ==
    \A t \in Turns :
        (turn[t].outcome = "raise" /\ turn[t].pc = "done") =>
            /\ turn[t].sent = <<"error">>
            /\ ~turn[t].escaped
            /\ ~turn[t].save_called
            /\ turn[t].attempts = 0
            /\ ~turn[t].committed

C9_Witness ==
    \E a, b \in Turns :
        /\ turn[a].transport = "ws" /\ turn[b].transport = "slack"
        /\ turn[a].ran /\ turn[b].ran
        /\ turn[a].outcome = "raise" /\ turn[b].outcome = "raise"
        /\ turn[a].pc = "done" /\ turn[b].pc = "done"
        /\ store["u1"] # Absent

\* C10: save_history is called for a turn exactly when the run's final output
\* has a non-empty explanation; it is handed the window read at the start of
\* the turn plus the user's message as sent (no [USER_ID: ...] prefix) and the
\* assistant's explanation, and that is what the key holds once the transaction
\* has committed; a final output with an empty explanation is delivered and
\* nothing is saved.
C10_Persistence ==
    \A t \in Turns :
        /\ turn[t].pc \in {"save_exec", "done"} =>
              (turn[t].save_called <=>
                  (turn[t].outcome = "final" /\ turn[t].final.explanation.body # ""))
        /\ turn[t].save_called => turn[t].new_history = ExpectedAnswered(t)
        /\ (turn[t].committed /\ turn[t].commit_at + 1 = commits[turn[t].user])
              => store[turn[t].user] = AsStored(ExpectedAnswered(t))
        /\ (turn[t].pc = "done" /\ turn[t].outcome = "final"
            /\ turn[t].final.explanation.body = "")
              => (turn[t].sent = <<"answer">> /\ ~turn[t].save_called /\ ~turn[t].committed)

C10_Witness ==
    \E a, b \in Turns :
        /\ turn[a].pc = "done" /\ turn[a].committed
        /\ Len(turn[a].history) = 20
        /\ store[turn[a].user] = AsStored(ExpectedAnswered(a))
        /\ Len(store[turn[a].user].items) = 22
        /\ turn[a].sent = <<"answer">>
        /\ turn[b].pc = "done" /\ turn[b].outcome = "final"
        /\ turn[b].final.explanation.body = ""
        /\ turn[b].sent = <<"answer">>

\* C14: every write to a conversation keeps the turns already stored, with all
\* their attributes and in their order, dropping only those that fall out of
\* the window of 20, and puts the new turns after them.
C14_AppendOnly ==
    [][ \A u \in Users :
          store'[u] # store[u] =>
             LET keep == LastN(store[u].items, HistoryWindow)
                 new  == store'[u].items
             IN  /\ Len(new) >= Len(keep)
                 /\ SubSeq(new, 1, Len(keep)) = keep ]_vars

\* C17: every POST /api/chat ends with one response whose status is success,
\* blocked or error; no exception leaves api_chat.
C17_HttpContract ==
    \A t \in Turns :
        (turn[t].transport = "http" /\ turn[t].pc = "done") =>
            /\ ~turn[t].escaped
            /\ Len(turn[t].sent) = 1
            /\ turn[t].sent[1] \in {"answer", "refusal", "error"}

\* C19: a Slack event whose Slack id resolves to no user_id gets the login
\* challenge and nothing else: no history is read, the agent is not run and
\* save_history is not called.
C19_SlackLoginGate ==
    \A t \in Turns :
        ( /\ turn[t].transport = "slack" /\ turn[t].pc # "idle"
          /\ ~turn[t].escaped
          /\ SlackUser(turn[t].slack_user_id) = "" )
        => /\ turn[t].pc = "done"
           /\ turn[t].sent = <<"login">>
           /\ ~turn[t].read /\ turn[t].history = <<>>
           /\ ~turn[t].guarded /\ turn[t].verdict = "none" /\ ~turn[t].ran
           /\ ~turn[t].save_called /\ turn[t].attempts = 0 /\ ~turn[t].committed

C19_Witness ==
    \E a, b \in Turns :
        /\ turn[a].transport = "slack" /\ turn[a].slack_user_id = "S2"
        /\ turn[a].sent = <<"login">>
        /\ turn[b].transport = "slack" /\ turn[b].slack_user_id = "S1"
        /\ turn[b].read /\ turn[b].ran /\ turn[b].committed

\* C13: save_history never raises to its caller: whatever fails on the write
\* path (encoding the history, reaching the store) is logged only, the key
\* keeps its value, and a turn that called it still ends with its one message.
C13_WriteErrorsSwallowed ==
    \A t \in Turns :
        /\ ~turn[t].save_raised
        /\ (turn[t].pc = "done" /\ turn[t].save_called /\ ~turn[t].committed)
              => (turn[t].transport = "call" \/ Len(turn[t].sent) = 1)

\* a stored value that is the JSON of a list of objects with role and content
WellFormed(raw) ==
    /\ raw.kind = "list"
    /\ \A i \in 1..Len(raw.items) : {"role", "content"} \subseteq DOMAIN raw.items[i]

\* C12: get_history never raises, and it returns the empty list when the key
\* is absent, when its value is not a well-formed list of turns, and when the
\* store cannot be reached.
C12_ReadFailOpen ==
    /\ lawPc # "raised"
    /\ lawPc = "got_unreachable" => lawRead = <<>>
    /\ (lawPc = "got" /\ ~WellFormed(store[lawUser])) => lawRead = <<>>

\* the external call failed: no answer, a status outside 2xx, or a body
\* announced as JSON that does not parse
CallFailed(r) ==
    \/ r.net # "ok"
    \/ r.status \notin 200..299
    \/ (r.ctype = "json" /\ r.body # "json")

\* C20: a tool whose external call fails returns a text describing the error
\* and raises nothing; a 2xx response is returned as its payload, not as an
\* error.
C20_ToolFailuresAsText ==
    tool.pc = "done" =>
        /\ tool.out # "raised"
        /\ CallFailed(tool) => tool.out = "error_text"
        /\ ~CallFailed(tool) => tool.out \in {"payload_json", "payload_text"}

C16_HandoffTree ==
    /\ run.handoffs \in {0, 1}
    /\ run.handoffs = 0 => run.agent = "the_leader_agent"
    /\ run.handoffs = 1 => run.agent \in {"chat_agent", "awx_worker_agent", "awx_github_agent"}
    /\ run.agent # "the_leader_agent" => Handoffs(run.agent) = {}

C16_Witness ==
    /\ run.state = "done"
    /\ run.agent = "awx_github_agent"
    /\ run.handoffs = 1
    /\ run.turns > 2

\* ------------------------------------------- C11
StreamTypes == {"awx-chat-token", "awx-chat"}

\* C11: the frames of one streamed turn. While the run streams, the client has
\* received only token frames and tool notifications, at most one per event
\* and in the order of the events; the final awx-chat frame is sent only for a
\* run that ended with a final output, it is the last frame of the turn (no
\* stream frame follows it), and a turn whose run produced a final output and
\* whose client is still connected has received it.
C11_StreamingOrder ==
    \A c \in Conns :
        LET r == conn[c]
        IN  /\ \A i \in 1..Len(r.frames) :
                  /\ r.frames[i].request_type \in StreamTypes
                  /\ r.frames[i].index \in 1..r.events
            /\ \A i, j \in 1..Len(r.frames) :
                  i < j => r.frames[i].index < r.frames[j].index
            /\ r.frames # <<>> => r.pc = "stream" /\ r.last = "none"
            /\ r.pc = "stream" => r.last = "none"
            /\ r.last = "awx-chat" => r.outcome = "final" /\ r.request_type = "awx-chat"
            /\ (r.pc = "recv" /\ r.outcome = "final" /\ r.client = "up")
                  => r.last = "awx-chat"

\* one connection has streamed a token and then a tool notification, another
\* has ended its turn with the final frame
C11_Witness ==
    \E c, d \in Conns :
        /\ conn[c].pc = "stream"
        /\ conn[c].frames = <<Frame("awx-chat-token", 1), Frame("awx-chat", 2)>>
        /\ conn[d].last = "awx-chat"
        /\ conn[d].outcome = "final"

\* ------------------------------------------- C18
\* C18: a client dropping its connection changes nothing but that connection's
\* client side: the handler's position, the history it read, the store, the
\* registry and every other connection stay as they were; and any step of one
\* connection leaves the other connections alone and writes only the
\* conversation of its own user.
C18_DisconnectOnlyOwnLoop ==
    [][ /\ \A c \in Conns :
              (conn[c].client = "up" /\ conn'[c].client = "gone")
                 => /\ conn'[c] = [conn[c] EXCEPT !.client = "gone"]
                    /\ store' = store
                    /\ commits' = commits
                    /\ active_connections' = active_connections
        /\ \A c, d \in Conns :
              (c # d /\ conn'[c] # conn[c]) => conn'[d] = conn[d]
        /\ \A u \in Users :
              store'[u] # store[u]
                 => \E c \in Conns : /\ conn[c].user = u
                                     /\ conn[c].pc = "stream"
                                     /\ conn'[c] # conn[c]
      ]_vars

\* the client left during the turn; the run ended with a final output, its two
\* entries are stored and the final frame reached nobody
C18_Witness ==
    \E c \in Conns :
        /\ conn[c].client = "gone"
        /\ conn[c].outcome = "final"
        /\ conn[c].saved
        /\ conn[c].last = "none"
        /\ store[conn[c].user] # Absent
        /\ \E d \in Conns : d # c /\ conn[d].pc = "stream" /\ conn[d].client = "up"

\* ------------------------------------------- C24
\* GET /health: active_ws_count = len(active_connections)
health_check ==
    [websocket_connections |->
        Cardinality({u \in Users : active_connections[u] # "none"})]

\* the connections accepted by websocket_endpoint whose handler has not ended
OpenConnections == {c \in Conns : conn[c].pc \in {"recv", "stream"}}

\* C24: the websocket_connections value of GET /health is the number of
\* WebSocket connections that are open.
C24_HealthCount ==
    health_check.websocket_connections = Cardinality(OpenConnections)

\* ------------------------------------------- C25
FrameTypes == {"awx-chat", "awx-chat-token", "conversation-history", "error"}

TurnFailed(r) == r.outcome \in {"nofinal", "raise"}

\* C30: a connection whose turn failed has left its receive loop, its client
\* (if still connected) got the error frame as the last frame, and the
\* registry no longer holds the connection; a connection that has left the
\* loop handles nothing any more; a connection that sent an error frame and
\* still waits for messages got a message of an unknown request_type.
C30_FailedTurnEndsSession ==
    /\ [](\A c \in Conns :
            /\ TurnFailed(conn[c]) =>
                  /\ conn[c].pc = "ended"
                  /\ conn[c].client = "up" => conn[c].last = "error"
                  /\ active_connections[conn[c].user] # c
            /\ (conn[c].last = "error" /\ conn[c].pc # "ended") =>
                  /\ conn[c].request_type = "unknown"
                  /\ conn[c].pc = "recv"
            /\ conn[c].pc = "ended" => active_connections[conn[c].user] # c)
    /\ [][\A c \in Conns : conn[c].pc = "ended" => conn'[c] = conn[c]]_vars

\* the first message's run failed for a connected client while the second
\* message was still to come
C30_Witness ==
    \E c \in Conns :
        /\ TurnFailed(conn[c])
        /\ conn[c].n = 1
        /\ conn["c1"].n + conn["c2"].n < MaxWsMsgs
        /\ conn[c].pc = "ended"
        /\ conn[c].client = "up"
        /\ conn[c].last = "error"
        /\ active_connections[conn[c].user] = "none"

\* ------------------------------------------- C26
\* the call of turn t made the last commit on its key
LastCommitter(t) ==
    /\ turn[t].committed
    /\ commits[turn[t].user] = turn[t].commit_at + 1

\* C26: whatever the number of attempts a save_history call needed, once its
\* transaction has committed (and nobody wrote the key after it) the key holds
\* json.dumps of the history it was called with, the value a call that
\* commits at its first attempt leaves.
C26_RetryIdempotent ==
    \A t \in Turns :
        LastCommitter(t) => store[turn[t].user] = json_dumps(turn[t].new_history)

\* a call lost its first attempt to a commit of another history on the same
\* key, was replayed and committed
C26_Witness ==
    \E t, s \in Turns :
        /\ s # t
        /\ LastCommitter(t)
        /\ turn[t].attempts = 2
        /\ turn[s].committed
        /\ turn[s].user = turn[t].user
        /\ turn[s].new_history # turn[t].new_history
        /\ store[turn[t].user] = json_dumps(turn[t].new_history)

\* ------------------------------------------- C27
\* C27: every save_history call (of a history that can be serialized) returns
\* to its caller, whatever the other writers of the key do.
C27_SaveReturns ==
    \A t \in Turns :
        (turn[t].pc = "save_exec" /\ ~json_dumps_raises(turn[t].new_history))
            ~> (turn[t].pc = "done" /\ ~turn[t].save_raised)

\* ------------------------------------------- C28
\* a list of even length, of at most a window plus one turn, user and
\* assistant entries in turn, a user entry first
WellShaped(items) ==
    /\ Len(items) % 2 = 0
    /\ Len(items) <= HistoryWindow + 2
    /\ \A i \in 1..Len(items) :
          items[i].role = (IF i % 2 = 1 THEN "user" ELSE "assistant")

\* C28: every key holds nothing or a list of even length, of at most 22
\* entries, that alternates user and assistant entries and begins with a user
\* entry.
C28_StoredShape ==
    \A u \in Users :
        \/ store[u] = Absent
        \/ store[u].kind = "list" /\ WellShaped(store[u].items)

\* a turn that read a full window of 20 has stored its 22 entries
C28_Witness ==
    \E t \in Turns :
        /\ LastCommitter(t)
        /\ Len(turn[t].history) = HistoryWindow
        /\ Len(store[turn[t].user].items) = HistoryWindow + 2
        /\ \E s \in Turns : s # t /\ turn[s].committed /\ turn[s].user = turn[t].user

\* ------------------------------------------- C29
\* the two entries of turn t alone: its user message and the run's answer (the
\* refusal for a rejected turn)
OwnEntries(t) ==
    << [role |-> "user", content |-> [prefix |-> "", body |-> "message", n |-> t]],
       IF turn[t].tripwire THEN RefusalEntry
       ELSE [role |-> "assistant", content |-> turn[t].final.explanation,
             tool_result |-> turn[t].final.result,
             tool_name |-> turn[t].final.tool_name] >>

\* C29: a turn whose get_history gave the empty list and whose save_history
\* commits sets the key to its own two entries, whatever the key held; the
\* key holds exactly these while no later write comes.
C29_FailOpenReadErases ==
    /\ [][\A t \in Turns :
            (turn'[t].committed /\ ~turn[t].committed /\ turn[t].history = <<>>)
               => store'[turn[t].user] = AsStored(OwnEntries(t)')]_vars
    /\ [](\A t \in Turns :
            (LastCommitter(t) /\ turn[t].history = <<>>)
               => store[turn[t].user] = AsStored(OwnEntries(t)))

\* the key of a user held 22 entries (another turn has read their window of
\* 20); a turn that read it while the store was unreachable was answered and
\* saved: the key holds two entries
C29_Witness ==
    \E t, s \in Turns :
        /\ s # t
        /\ turn[s].user = turn[t].user
        /\ Len(turn[s].history) = HistoryWindow
        /\ ~turn[s].committed
        /\ LastCommitter(t)
        /\ commits[turn[t].user] = 1
        /\ turn[t].history = <<>>
        /\ store[turn[t].user] = AsStored(OwnEntries(t))

\* ------------------------------------------- C21
\* C21: an invocation of a tool has made exactly one outbound call when it
\* ends.
C21_OneOutboundCall == tool.pc = "done" => tool.calls = 1

\* ------------------------------------- the GitHub worker's repository config
\* Keys of the configuration (.env and the process environment) that are set.
MaxSetKeys == 3

\* the five settings of get_user_repository_config
Settings == {"ALLOWED_REPOSITORY", "ALLOWED_BRANCH", "REPOSITORY_URL",
             "REPOSITORY_REF", "REPOSITORY_OWNER"}

\* f"{setting}_{user_id}"; the default key is the setting's name alone
Key(setting, user_id) == [setting |-> setting, suffix |-> user_id]

\* user_id handed to get_user_repository_config: a user, or "" (as None, falsy)
ConfigUserIds == Users \cup {""}

Keys == {Key(s, u) : s \in Settings, u \in ConfigUserIds}

\* values a key is set to
ConfigValues == {"x", "y"}
Unset == "<unset>"
None == "<None>"

\* the environment in which the keys of the set S are set as f says
Environment(S, f) == [k \in Keys |-> IF k \in S THEN f[k] ELSE Unset]

getenv_default_first(env, key, default) ==
    IF default # None THEN default ELSE IF env[key] # Unset THEN env[key] ELSE None

\* os.getenv(key, default)
os_getenv(env, key, default) == IF env[key] # Unset THEN env[key] ELSE default

\* get_user_repository_config(user_id): the keys are suffixed "if user_id:",
\* each setting is os.getenv(<key>, os.getenv(<default key>))
get_user_repository_config(env, user_id) ==
    [s \in Settings |->
        os_getenv(env, IF user_id # "" THEN Key(s, user_id) ELSE Key(s, ""),
                  os_getenv(env, Key(s, ""), None))]

\* load_user_github_config(user_id) / get_user_repository_config(user_id)
LoadConfig ==
    /\ github.pc = "load"
    /\ github' = [github EXCEPT !.pc = "loaded",
                     !.config = get_user_repository_config(github.env, github.user_id)]
    /\ UNCHANGED <<store, commits, turn, lawVars, gateVars, wsVars, run, tool>>

InitConfig ==
    /\ store = [u \in Users |-> Absent]
    /\ commits = [u \in Users |-> 0]
    /\ turn = [t \in Turns |-> Idle]
    /\ NoLaw /\ NoGate /\ NoWs /\ NoRun /\ NoTool
    /\ \E S \in {X \in SUBSET Keys : Cardinality(X) <= MaxSetKeys} :
         \E f \in [S -> ConfigValues], user_id \in ConfigUserIds :
            github = [pc |-> "load", user_id |-> user_id, env |-> Environment(S, f),
                      config |-> [s \in Settings |-> None]]

NextConfig == LoadConfig

SpecConfig == InitConfig /\ [][NextConfig]_vars

\* ------------------------------------------- C23
\* C23: for each of the five settings the configuration returned for a user
\* is the value of the key suffixed with the user_id when that key is set,
\* else the value of the unsuffixed key (None when that is not set either);
\* two users whose suffixed keys of a setting are set to different values get
\* different values for it.
C23_PerUserConfig ==
    github.pc = "loaded" =>
        LET env == github.env
            u == github.user_id
        IN  /\ \A s \in Settings :
                  github.config[s] =
                     IF u # "" /\ env[Key(s, u)] # Unset THEN env[Key(s, u)]
                     ELSE IF env[Key(s, "")] # Unset THEN env[Key(s, "")]
                     ELSE None
            /\ \A v \in Users, s \in Settings :
                  ( /\ u \in Users /\ v # u
                    /\ env[Key(s, u)] # Unset /\ env[Key(s, v)] # Unset
                    /\ env[Key(s, u)] # env[Key(s, v)] )
                  => github.config[s] # get_user_repository_config(env, v)[s]

\* a user with a repository of its own, another user with another one, and a
\* branch that comes from the default key
C23_Witness ==
    /\ github.pc = "loaded"
    /\ github.user_id = "u1"
    /\ github.env[Key("ALLOWED_REPOSITORY", "u1")] = "x"
    /\ github.env[Key("ALLOWED_REPOSITORY", "u2")] = "y"
    /\ github.env[Key("ALLOWED_BRANCH", "")] = "y"
    /\ github.config["ALLOWED_REPOSITORY"] = "x"
    /\ github.config["ALLOWED_BRANCH"] = "y"
    /\ github.config["REPOSITORY_URL"] = None

\* ------------------------------------- the GitHub worker's tools
\* blocked_tool_names of the static tool filter
blocked_tool_names ==
    {"delete_repository", "create_repository", "delete_file", "switch_branch"}

\* MCPServerStreamableHttp(params=params, cache_tools_list=True): the
\* tool_filter argument is commented out
tool_filter_passed == FALSE

\* tools of the GitHub MCP server that the source names
GithubServerTools == blocked_tool_names \cup {"get_file_contents", "search_code"}

\* what the agent can call: tools=[load_user_github_config] and, when
\* ENABLE_GITHUB_MCP is true and the token is set, the server's tools less the
\* filtered ones
ToolsOffered(mcp_enabled) ==
    {"load_user_github_config"}
    \cup (IF ~mcp_enabled THEN {}
          ELSE IF tool_filter_passed THEN GithubServerTools \ blocked_tool_names
          ELSE GithubServerTools)

\* what a user asks of the worker: an operation on the configured pair, or
\* one that leaves it
GithubRequests == {"read_file", "switch_branch", "create_branch", "other_repository"}
OutOfScope(request) == request # "read_file"

\* One turn of awx_github_agent. The restrictions are text of its instructions:
\* what the model answers and which of the offered tools it calls is its own
\* choice, no code of the worker checks the request, the arguments or the answer.
GithubTurn ==
    /\ github.pc = "request"
    /\ \E reply \in {"access_denied", "answer"},
          call \in ToolsOffered(github.mcp_enabled) \cup {"none"} :
         github' = [github EXCEPT !.pc = "done", !.reply = reply, !.call = call]
    /\ UNCHANGED <<store, commits, turn, lawVars, gateVars, wsVars, run, tool>>

InitGithub ==
    /\ store = [u \in Users |-> Absent]
    /\ commits = [u \in Users |-> 0]
    /\ turn = [t \in Turns |-> Idle]
    /\ NoLaw /\ NoGate /\ NoWs /\ NoRun /\ NoTool
    /\ \E user_id \in Users, request \in GithubRequests, mcp_enabled \in BOOLEAN :
         github = [pc |-> "request", user_id |-> user_id, request |-> request,
                   mcp_enabled |-> mcp_enabled, reply |-> "none", call |-> "none"]

NextGithub == GithubTurn

SpecGithub == InitGithub /\ [][NextGithub]_vars

\* ------------------------------------------- C22
\* C22: the worker never issues a tool call that switches a branch or creates
\* or deletes a repository, and a request that leaves the user's configured
\* repository and branch is refused with the access-denied answer and no tool
\* call on the repository.
C22_GithubScoping ==
    github.pc = "done" =>
        /\ github.call \notin {"switch_branch", "create_repository", "delete_repository"}
        /\ OutOfScope(github.request) =>
              /\ github.reply = "access_denied"
              /\ github.call \in {"none", "load_user_github_config"}

====
